---- MODULE Spec2Model ----
(***************************************************************************)
(* Model of forge's gas report (src/forge/src/gas_report.rs): GasReport::new, *)
(* analyze / analyze_trace / analyze_node, finalize and the Display impl.     *)
(*                                                                            *)
(* Strings are sequences of one-character strings, so that rsplit(':'),       *)
(* replace(':', ""), starts_with and the BTreeMap key order are computed and  *)
(* not assumed.  A BTreeMap is a function whose DOMAIN is its key set; its    *)
(* iteration order is the byte-lexicographic order of the keys.  Option is a  *)
(* sequence of length 0 (None) or 1 (Some).  U256 values are naturals: every  *)
(* value stored is a u64 gas cost, a usize length or a sum of at most a few   *)
(* of them, far below 2^256.                                                  *)
(***************************************************************************)
EXTENDS Naturals, Integers, Sequences, FiniteSets, TLC

VARIABLES
    report_for,   \* GasReport.report_for : Vec<String>
    contracts,    \* GasReport.contracts  : BTreeMap<String, ContractInfo>
    rendered,     \* what the last operation wrote to the formatter (fmt only)
    lastOp,       \* the last operation applied: "new", "analyze", "finalize", "fmt"
    finalized,    \* finalize has been applied at least once
    preFinalize,  \* contracts as they were when finalize was last applied
    history       \* every call-trace arena passed to analyze so far, in order

vars == <<report_for, contracts, rendered, lastOp, finalized, preFinalize, history>>

(***************************************************************************)
(* Bounds of the model.                                                     *)
(***************************************************************************)
\* total number of trace nodes analysed in one behaviour (sentinel, payload
\* and contract-key families)
MaxNodes == 3
\* total number of trace nodes in the traversal-order families
MaxOrderNodes == 4
\* total number of trace nodes in the filter family
MaxFilterNodes == 2
\* longest calls vector of a deserialized report handed to finalize
MaxLen == 4

(***************************************************************************)
(* Strings.                                                                 *)
(***************************************************************************)
\* code points of the characters the model's strings are built from
CharCode(c) ==
    CASE c = " " -> 32 [] c = "(" -> 40 [] c = ")" -> 41 [] c = "*" -> 42
      [] c = "," -> 44 [] c = ":" -> 58
      [] c = "A" -> 65 [] c = "B" -> 66 [] c = "C" -> 67 [] c = "F" -> 70
      [] c = "U" -> 85
      [] c = "a" -> 97 [] c = "c" -> 99 [] c = "e" -> 101 [] c = "f" -> 102
      [] c = "n" -> 110 [] c = "o" -> 111 [] c = "p" -> 112 [] c = "r" -> 114
      [] c = "s" -> 115 [] c = "t" -> 116 [] c = "u" -> 117

\* char::to_lowercase on the characters above
LowerChar(c) ==
    CASE c = "A" -> "a" [] c = "B" -> "b" [] c = "C" -> "c" [] c = "F" -> "f"
      [] c = "U" -> "u" [] OTHER -> c

to_lowercase(s) == [i \in 1..Len(s) |-> LowerChar(s[i])]

starts_with(s, prefix) ==
    /\ Len(prefix) <= Len(s)
    /\ SubSeq(s, 1, Len(prefix)) = prefix

\* Ord for String: byte-lexicographic, a proper prefix is smaller
StrLess(a, b) ==
    \E i \in 1..(Len(b)) :
        /\ \A j \in 1..(i - 1) : j <= Len(a) /\ a[j] = b[j]
        /\ \/ i = Len(a) + 1
           \/ i <= Len(a) /\ CharCode(a[i]) < CharCode(b[i])

\* the keys of a BTreeMap<String, _> in iteration order
RECURSIVE KeysInOrder(_)
KeysInOrder(S) ==
    IF S = {} THEN <<>>
    ELSE LET least == CHOOSE k \in S : \A o \in S \ {k} : StrLess(k, o)
         IN  <<least>> \o KeysInOrder(S \ {least})

\* rsplit_next with a defect: split(':') in place of rsplit(':'), the part before
\* the first ':'
split_next(name) ==
    LET colons == {i \in 1..Len(name) : name[i] = ":"}
    IN  IF colons = {} THEN name
        ELSE LET first == CHOOSE i \in colons : \A j \in colons : i <= j
             IN  SubSeq(name, 1, first - 1)

\* name.rsplit(':').next(): the part after the last ':', the whole string
\* when there is none (rsplit always yields one item, so unwrap_or never
\* takes its default)
rsplit_next(name) ==
    LET colons == {i \in 1..Len(name) : name[i] = ":"}
    IN  IF colons = {} THEN name
        ELSE LET last == CHOOSE i \in colons : \A j \in colons : j <= i
             IN  SubSeq(name, last + 1, Len(name))

\* sig.replace(':', "")
RECURSIVE replace_colon(_)
replace_colon(s) ==
    IF s = <<>> THEN <<>>
    ELSE (IF Head(s) = ":" THEN <<>> ELSE <<Head(s)>>) \o replace_colon(Tail(s))

Digit(d) ==
    CASE d = 0 -> "0" [] d = 1 -> "1" [] d = 2 -> "2" [] d = 3 -> "3"
      [] d = 4 -> "4" [] d = 5 -> "5" [] d = 6 -> "6" [] d = 7 -> "7"
      [] d = 8 -> "8" [] d = 9 -> "9"

\* U256::to_string and usize::to_string: decimal, no leading zeros
RECURSIVE to_string(_)
to_string(n) ==
    IF n < 10 THEN <<Digit(n)>>
    ELSE to_string(n \div 10) \o <<Digit(n % 10)>>

(***************************************************************************)
(* The data consumed from the trace module and the executor.                *)
(***************************************************************************)
CHEATCODE_ADDRESS == "0x7109709ECfa91a80626fF3989D68f67F5b1DD12D"
HARDHAT_CONSOLE_ADDRESS == "0x000000000000000000636F6e736F6c652e6c6f67"
OtherAddress == "0x00000000000000000000000000000000000000A1"

None == <<>>
Some(x) == <<x>>

\* RawOrDecodedCall::Raw(bytes) and RawOrDecodedCall::Decoded(func, sig, args)
Raw(bytes) == [tag |-> "Raw", bytes |-> bytes, func |-> <<>>, sig |-> <<>>]
Decoded(func, sig) == [tag |-> "Decoded", bytes |-> <<>>, func |-> func, sig |-> sig]

\* CallTrace::created(): the call is a contract creation
created(trace) == trace.created

\* TestFunctionExt for String
is_test(func) == starts_with(func, <<"t", "e", "s", "t">>)
is_setup(func) == to_lowercase(func) = <<"s", "e", "t", "u", "p">>

\* a CallTrace, as far as analyze_node reads it
CallTrace(address, contract, is_created, gas_cost, data) ==
    [address |-> address, contract |-> contract, created |-> is_created,
     gas_cost |-> gas_cost, data |-> data]

(***************************************************************************)
(* The report.                                                              *)
(***************************************************************************)
EmptyMap == <<>>

\* BTreeMap::insert / the slot an entry() call leaves behind
Put(m, k, v) == [x \in (DOMAIN m) \cup {k} |-> IF x = k THEN v ELSE m[x]]

\* GasInfo::default()
DefaultGasInfo == [calls |-> <<>>, min |-> 0, mean |-> 0, median |-> 0, max |-> 0]

\* ContractInfo::default()
DefaultContractInfo == [gas |-> 0, size |-> 0, functions |-> EmptyMap]

\* BTreeMap::entry(k).or_default(): the map with the entry present
OrDefault(m, k, d) == IF k \in DOMAIN m THEN m ELSE Put(m, k, d)

(***************************************************************************)
(* GasReport::new                                                           *)
(***************************************************************************)
\* Self { report_for, ..Default::default() }
new(filter) == [report_for |-> filter, contracts |-> EmptyMap]

(***************************************************************************)
(* GasReport::analyze, analyze_trace, analyze_node                          *)
(***************************************************************************)
\* self.report_for.iter().any(|s| s == name.rsplit(':').next().unwrap_or(..))
report_for_name(self, name) ==
    \E i \in DOMAIN self.report_for : self.report_for[i] = rsplit_next(name)

\* match_data with a defect: a creation adds to gas and size
match_data_accumulating(contract_report, trace) ==
    IF trace.data.tag = "Raw" /\ created(trace)
    THEN [contract_report EXCEPT !.gas = @ + trace.gas_cost,
                                 !.size = @ + Len(trace.data.bytes)]
    ELSE IF /\ trace.data.tag = "Decoded"
            /\ ~is_test(trace.data.func)
            /\ ~is_setup(trace.data.func)
    THEN LET func == trace.data.func
             sig == trace.data.sig
             sigs == IF func \in DOMAIN contract_report.functions
                     THEN contract_report.functions[func] ELSE EmptyMap
             function_report == IF sig \in DOMAIN sigs THEN sigs[sig]
                                ELSE DefaultGasInfo
             pushed == [function_report EXCEPT
                            !.calls = Append(@, trace.gas_cost)]
         IN  [contract_report EXCEPT
                  !.functions = Put(@, func, Put(sigs, sig, pushed))]
    ELSE contract_report

\* match_data with a defect: the guard of the decoded arm forgets is_setup
match_data_no_setup_check(contract_report, trace) ==
    IF trace.data.tag = "Raw" /\ created(trace)
    THEN [contract_report EXCEPT !.gas = trace.gas_cost,
                                 !.size = Len(trace.data.bytes)]
    ELSE IF /\ trace.data.tag = "Decoded"
            /\ ~is_test(trace.data.func)
    THEN LET func == trace.data.func
             sig == trace.data.sig
             sigs == IF func \in DOMAIN contract_report.functions
                     THEN contract_report.functions[func] ELSE EmptyMap
             function_report == IF sig \in DOMAIN sigs THEN sigs[sig]
                                ELSE DefaultGasInfo
             pushed == [function_report EXCEPT
                            !.calls = Append(@, trace.gas_cost)]
         IN  [contract_report EXCEPT
                  !.functions = Put(@, func, Put(sigs, sig, pushed))]
    ELSE contract_report

\* the match on trace.data, applied to the contract's entry
match_data(contract_report, trace) ==
    IF trace.data.tag = "Raw" /\ created(trace)
    THEN [contract_report EXCEPT !.gas = trace.gas_cost,
                                 !.size = Len(trace.data.bytes)]
    ELSE IF /\ trace.data.tag = "Decoded"
            /\ ~is_test(trace.data.func)
            /\ ~is_setup(trace.data.func)
    THEN LET func == trace.data.func
             sig == trace.data.sig
             sigs == IF func \in DOMAIN contract_report.functions
                     THEN contract_report.functions[func] ELSE EmptyMap
             function_report == IF sig \in DOMAIN sigs THEN sigs[sig]
                                ELSE DefaultGasInfo
             pushed == [function_report EXCEPT
                            !.calls = Append(@, trace.gas_cost)]
         IN  [contract_report EXCEPT
                  !.functions = Put(@, func, Put(sigs, sig, pushed))]
    ELSE contract_report

\* aggregate with a defect: the contract's entry is made inside the match arms,
\* so a payload that matches neither arm leaves no entry
aggregate_entry_in_arms(self, trace, report_for_all) ==
    IF trace.contract = None THEN self
    ELSE LET name == trace.contract[1]
             entries == OrDefault(self.contracts, name, DefaultContractInfo)
             matched == match_data(entries[name], trace)
         IN  IF (report_for_name(self, name) \/ report_for_all)
                /\ matched # entries[name]
             THEN [self EXCEPT !.contracts = Put(entries, name, matched)]
             ELSE self

\* the body of `if let Some(name) = &trace.contract`
aggregate(self, trace, report_for_all) ==
    IF trace.contract = None THEN self
    ELSE LET name == trace.contract[1]
         IN  IF report_for_name(self, name) \/ report_for_all
             THEN LET entries == OrDefault(self.contracts, name, DefaultContractInfo)
                  IN  [self EXCEPT !.contracts =
                           Put(entries, name, match_data(entries[name], trace))]
             ELSE self

RECURSIVE analyze_node(_, _, _, _)
RECURSIVE analyze_children(_, _, _, _)

\* analyze_node with a defect: a sentinel-address node is not aggregated but its
\* children are visited
analyze_node_past_sentinel(self, node_index, arena, report_for_all) ==
    LET node == arena[node_index]
        trace == node.trace
    IN  analyze_children(
            IF \/ trace.address = CHEATCODE_ADDRESS
               \/ trace.address = HARDHAT_CONSOLE_ADDRESS
            THEN self
            ELSE aggregate(self, trace, report_for_all),
            node.children, arena, report_for_all)

\* analyze_node with a defect: only the cheat-code address is excluded
analyze_node_cheatcode_only(self, node_index, arena, report_for_all) ==
    LET node == arena[node_index]
        trace == node.trace
    IN  IF trace.address = CHEATCODE_ADDRESS
        THEN self
        ELSE analyze_children(aggregate(self, trace, report_for_all),
                              node.children, arena, report_for_all)

RECURSIVE analyze_children_reversed(_, _, _, _)
\* analyze_children with a defect: the children are visited last to first
analyze_children_reversed(self, children, arena, report_for_all) ==
    IF children = <<>> THEN self
    ELSE analyze_children_reversed(
             analyze_node(self, children[Len(children)], arena, report_for_all),
             SubSeq(children, 1, Len(children) - 1), arena, report_for_all)

\* node.children.iter().for_each(|index| self.analyze_node(*index, ..))
analyze_children(self, children, arena, report_for_all) ==
    IF children = <<>> THEN self
    ELSE analyze_children(
             analyze_node(self, Head(children), arena, report_for_all),
             Tail(children), arena, report_for_all)

analyze_node(self, node_index, arena, report_for_all) ==
    LET node == arena[node_index]
        trace == node.trace
    IN  IF \/ trace.address = CHEATCODE_ADDRESS
           \/ trace.address = HARDHAT_CONSOLE_ADDRESS
        THEN self
        ELSE analyze_children(aggregate(self, trace, report_for_all),
                              node.children, arena, report_for_all)

analyze_trace(self, trace, report_for_all) ==
    analyze_node(self, 0, trace, report_for_all)

RECURSIVE analyze_traces(_, _, _)
\* traces.iter().for_each(|(_, trace)| self.analyze_trace(trace, ..))
analyze_traces(self, traces, report_for_all) ==
    IF traces = <<>> THEN self
    ELSE analyze_traces(analyze_trace(self, Head(traces), report_for_all),
                        Tail(traces), report_for_all)

analyze(self, traces) ==
    LET report_for_all ==
            \/ self.report_for = <<>>
            \/ \E i \in DOMAIN self.report_for : self.report_for[i] = <<"*">>
    IN  analyze_traces(self, traces, report_for_all)

(***************************************************************************)
(* foundry_common::calc and GasReport::finalize                             *)
(***************************************************************************)
RECURSIVE Sum(_)
Sum(s) == IF s = <<>> THEN 0 ELSE Head(s) + Sum(Tail(s))

\* calc::mean: the truncated arithmetic mean, zero for no values
mean(values) == IF values = <<>> THEN 0 ELSE Sum(values) \div Len(values)

\* median_sorted with a defect: the two middle values of an even number of
\* values are averaged
median_sorted_averaging(values) ==
    IF values = <<>> THEN 0
    ELSE IF Len(values) % 2 = 0
    THEN (values[Len(values) \div 2] + values[Len(values) \div 2 + 1]) \div 2
    ELSE values[(Len(values) + 1) \div 2]

\* calc::median_sorted: the middle element of a sorted slice, the lower of
\* the two middle ones when the length is even, zero for no values
median_sorted(values) ==
    IF values = <<>> THEN 0 ELSE values[(Len(values) + 1) \div 2]

RECURSIVE Insert(_, _)
Insert(x, s) ==
    IF s = <<>> THEN <<x>>
    ELSE IF x <= Head(s) THEN <<x>> \o s
    ELSE <<Head(s)>> \o Insert(x, Tail(s))

RECURSIVE sort_unstable(_)
\* slice::sort_unstable on U256: ascending; equal values are indistinguishable
sort_unstable(s) ==
    IF s = <<>> THEN <<>> ELSE Insert(Head(s), sort_unstable(Tail(s)))

first_or_default(s) == IF s = <<>> THEN 0 ELSE s[1]
last_or_default(s) == IF s = <<>> THEN 0 ELSE s[Len(s)]

\* finalize_func with a defect: the samples are not sorted
finalize_func_unsorted(func) ==
    LET calls == func.calls
    IN  [calls |-> calls,
         min |-> first_or_default(calls),
         max |-> last_or_default(calls),
         mean |-> mean(calls),
         median |-> median_sorted(calls)]

\* finalize_func with a defect: the median is taken before the sort
finalize_func_median_first(func) ==
    LET calls == sort_unstable(func.calls)
    IN  [calls |-> calls,
         min |-> first_or_default(calls),
         max |-> last_or_default(calls),
         mean |-> mean(calls),
         median |-> median_sorted(func.calls)]

\* the closure applied to every GasInfo
finalize_func(func) ==
    LET calls == sort_unstable(func.calls)
    IN  [calls |-> calls,
         min |-> first_or_default(calls),
         max |-> last_or_default(calls),
         mean |-> mean(calls),
         median |-> median_sorted(calls)]

finalize(self) ==
    [self EXCEPT !.contracts =
        [name \in DOMAIN self.contracts |->
            [self.contracts[name] EXCEPT !.functions =
                [fname \in DOMAIN self.contracts[name].functions |->
                    [sig \in DOMAIN self.contracts[name].functions[fname] |->
                        finalize_func(self.contracts[name].functions[fname][sig])]]]]]

(***************************************************************************)
(* impl Display for GasReport                                               *)
(***************************************************************************)
Str_contract == <<" ", "c", "o", "n", "t", "r", "a", "c", "t">>

\* one table row per (function name, signature), in key order
RECURSIVE sig_rows(_, _, _)
sig_rows(fname, sigs, order) ==
    IF order = <<>> THEN <<>>
    ELSE LET sig == Head(order)
             function == sigs[sig]
             fn_display == IF Cardinality(DOMAIN sigs) = 1 THEN fname
                           ELSE replace_colon(sig)
         IN  << <<fn_display, to_string(function.min), to_string(function.mean),
                  to_string(function.median), to_string(function.max),
                  to_string(Len(function.calls))>> >>
             \o sig_rows(fname, sigs, Tail(order))

RECURSIVE function_rows(_, _)
function_rows(functions, order) ==
    IF order = <<>> THEN <<>>
    ELSE sig_rows(Head(order), functions[Head(order)],
                  KeysInOrder(DOMAIN functions[Head(order)]))
         \o function_rows(functions, Tail(order))

\* the table written for one contract: the header, the deployment labels and
\* values, the column labels, the function rows (cell styling left out)
table(name, contract) ==
    [header |-> name \o Str_contract,
     deployment_labels |-> <<"Deployment Cost", "Deployment Size">>,
     deployment |-> <<to_string(contract.gas), to_string(contract.size)>>,
     column_labels |-> <<"Function Name", "min", "avg", "median", "max", "# calls">>,
     rows |-> function_rows(contract.functions,
                            KeysInOrder(DOMAIN contract.functions))]

RECURSIVE fmt_contracts_all(_, _)
\* fmt_contracts with a defect: a contract without functions gets a table too
fmt_contracts_all(cs, order) ==
    IF order = <<>> THEN <<>>
    ELSE <<table(Head(order), cs[Head(order)])>> \o fmt_contracts_all(cs, Tail(order))

RECURSIVE fmt_contracts(_, _)
fmt_contracts(cs, order) ==
    IF order = <<>> THEN <<>>
    ELSE LET name == Head(order)
         IN  (IF DOMAIN cs[name].functions = {} THEN <<>>
              ELSE <<table(name, cs[name])>>)
             \o fmt_contracts(cs, Tail(order))

\* fmt: the tables written, in the order written (writing to the formatter is
\* taken not to fail)
fmt(self) == fmt_contracts(self.contracts, KeysInOrder(DOMAIN self.contracts))

(***************************************************************************)
(* Inputs: call-trace arenas.  An arena is a function from 0..n-1 to nodes, *)
(* node 0 the root; every other node is listed once, as a child of a node   *)
(* of smaller index, in ascending or in descending index order.             *)
(***************************************************************************)
RECURSIVE SetToSeq(_, _)
\* the indices of S as a sequence, ascending or descending
SetToSeq(S, descending) ==
    IF S = {} THEN <<>>
    ELSE LET x == IF descending THEN CHOOSE y \in S : \A z \in S : z <= y
                  ELSE CHOOSE y \in S : \A z \in S : y <= z
         IN  <<x>> \o SetToSeq(S \ {x}, descending)

ParentFns(n) == {p \in [1..(n - 1) -> 0..(n - 2)] : \A i \in 1..(n - 1) : p[i] < i}

\* the child lists of the trees of n nodes
Shapes(n) ==
    {[i \in 0..(n - 1) |-> SetToSeq({j \in 1..(n - 1) : p[j] = i}, d)] :
        p \in ParentFns(n), d \in BOOLEAN}

ArenaSize(arena) == Cardinality(DOMAIN arena)

RECURSIVE TotalNodes(_)
TotalNodes(traces) ==
    IF traces = <<>> THEN 0 ELSE ArenaSize(Head(traces)) + TotalNodes(Tail(traces))

RECURSIVE ShapeLists(_)
\* the lists of tree shapes with n nodes in all
ShapeLists(n) ==
    IF n = 0 THEN {<<>>}
    ELSE UNION {{<<a>> \o rest : a \in Shapes(k), rest \in ShapeLists(n - k)} :
                    k \in 1..n}

ShapesMax == [n \in 0..MaxNodes |-> ShapeLists(n)]
ShapesOrder == [n \in 0..MaxOrderNodes |-> ShapeLists(n)]
ShapesFilter == [n \in 0..MaxFilterNodes |-> ShapeLists(n)]

RECURSIVE MkTraces(_, _, _)
\* the arenas of the given shapes, their nodes carrying the traces traceOf[1],
\* traceOf[2], ... in the order of the lists and of the node indices
MkTraces(shapes, traceOf, offset) ==
    IF shapes = <<>> THEN <<>>
    ELSE LET shape == Head(shapes)
             arena == [i \in DOMAIN shape |->
                          [children |-> shape[i], trace |-> traceOf[offset + i + 1]]]
         IN  <<arena>> \o MkTraces(Tail(shapes), traceOf, offset + ArenaSize(shape))

(***************************************************************************)
(* The strings and traces the inputs are drawn from.                        *)
(***************************************************************************)
NameA == <<"A">>
NameB == <<"B">>
NameAB == <<"A", "B">>
NameSrcA == <<"s", "r", "c", ":", "A">>
NameSrcB == <<"s", "r", "c", ":", "B">>
NameASrc == <<"A", ":", "s", "r", "c">>
NameBSrcA == <<"B", ":", "s", "r", "c", ":", "A">>
NameAColon == <<"A", ":">>
NameSrc == <<"s", "r", "c">>
Star == <<"*">>
FnTransfer == <<"t", "r", "a", "n", "s", "f", "e", "r">>
FnTestFoo == <<"t", "e", "s", "t", "F", "o", "o">>
FnSetUp == <<"s", "e", "t", "U", "p">>
FnSetup == <<"s", "e", "t", "u", "p">>
SigTransfer == FnTransfer \o <<"(", "a", ",", "u", ")">>
SigTransferFrom == FnTransfer \o <<"(", "a", ",", "a", ",", "u", ")">>
SigTestFoo == FnTestFoo \o <<"(", ")">>
SigSetUp == FnSetUp \o <<"(", ")">>
SigSetup == FnSetup \o <<"(", ")">>

\* sentinel family: decoded calls and creations, at a sentinel address and
\* not, and a call without a contract name
TracesSentinel ==
    {CallTrace(OtherAddress, Some(NameA), FALSE, 2, Decoded(FnTransfer, SigTransfer)),
     CallTrace(OtherAddress, Some(NameB), TRUE, 5, Raw(<<96, 128>>)),
     CallTrace(CHEATCODE_ADDRESS, Some(NameA), FALSE, 3, Decoded(FnTransfer, SigTransfer)),
     CallTrace(HARDHAT_CONSOLE_ADDRESS, Some(NameB), TRUE, 7, Raw(<<96>>)),
     CallTrace(OtherAddress, None, FALSE, 4, Decoded(FnTransfer, SigTransfer))}
FiltersSentinel == {<<>>, <<NameA>>, <<Star, NameB>>}

\* test family: decoded calls of test, setup and ordinary functions
TracesTests ==
    {CallTrace(OtherAddress, Some(NameA), FALSE, 2, Decoded(FnTransfer, SigTransfer)),
     CallTrace(OtherAddress, Some(NameA), FALSE, 3, Decoded(FnTestFoo, SigTestFoo)),
     CallTrace(OtherAddress, Some(NameA), FALSE, 4, Decoded(FnSetUp, SigSetUp)),
     CallTrace(OtherAddress, Some(NameSrcB), FALSE, 5, Decoded(FnSetup, SigSetup))}
FiltersTests == {<<>>, <<NameA>>, <<NameB, NameA>>}

\* key family: every payload shape, with and without a contract name
TracesKeys ==
    {CallTrace(OtherAddress, Some(NameA), FALSE, 2, Raw(<<1>>)),
     CallTrace(OtherAddress, None, FALSE, 3, Decoded(FnTransfer, SigTransfer)),
     CallTrace(OtherAddress, Some(NameSrcB), FALSE, 4, Decoded(FnTestFoo, SigTestFoo)),
     CallTrace(OtherAddress, Some(NameA), TRUE, 5, Decoded(FnTransfer, SigTransfer)),
     CallTrace(CHEATCODE_ADDRESS, Some(NameAB), FALSE, 6, Decoded(FnTransfer, SigTransfer))}
FiltersKeys == {<<>>, <<NameB>>, <<NameA>>}

\* rendering family: contracts with calls, with a deployment only, with both
TracesRender ==
    {CallTrace(OtherAddress, Some(NameB), FALSE, 2, Decoded(FnTransfer, SigTransfer)),
     CallTrace(OtherAddress, Some(NameA), FALSE, 3, Decoded(FnTransfer, SigTransferFrom)),
     CallTrace(OtherAddress, Some(NameAB), TRUE, 7, Raw(<<96, 128>>)),
     CallTrace(OtherAddress, Some(NameA), TRUE, 5, Raw(<<96>>))}
FiltersRender == {<<>>, <<NameA, NameB>>}

\* order family: calls of one contract under two signatures
TracesOrder ==
    {CallTrace(OtherAddress, Some(NameA), FALSE, 2, Decoded(FnTransfer, SigTransfer)),
     CallTrace(OtherAddress, Some(NameA), FALSE, 1, Decoded(FnTransfer, SigTransfer)),
     CallTrace(OtherAddress, Some(NameA), FALSE, 3, Decoded(FnTransfer, SigTransferFrom))}
FiltersOrder == {<<>>}

\* creation family: two deployments of one contract and a call of it
TracesCreate ==
    {CallTrace(OtherAddress, Some(NameA), TRUE, 7, Raw(<<96>>)),
     CallTrace(OtherAddress, Some(NameA), TRUE, 5, Raw(<<96, 128>>)),
     CallTrace(OtherAddress, Some(NameA), FALSE, 2, Decoded(FnTransfer, SigTransfer))}
FiltersCreate == {<<NameA>>}

\* filter family: contract names with and without ':' delimiters
NamesFilter == {NameA, NameB, NameSrcA, NameASrc, NameBSrcA, NameAColon}
TracesFilter ==
    {CallTrace(OtherAddress, Some(n), FALSE, 2, Decoded(FnTransfer, SigTransfer)) :
        n \in NamesFilter}
FiltersFilter ==
    {<<>>, <<Star>>, <<NameA>>, <<NameB, NameSrc>>, <<NameSrcA>>, <<NameB, Star>>,
     <<NameB>>, << <<>> >>}

\* statistics family: reports as a caller builds or deserializes them (every
\* field of GasReport, ContractInfo and GasInfo is public), with sample
\* vectors of up to MaxLen values in any order
Samples == {2, 21000, 23000}
RECURSIVE SeqsUpTo(_, _)
SeqsUpTo(S, n) ==
    IF n = 0 THEN {<<>>}
    ELSE SeqsUpTo(S, n - 1)
         \cup {Append(q, x) : q \in {r \in SeqsUpTo(S, n - 1) : Len(r) = n - 1}, x \in S}
LoadedGasInfos == {[DefaultGasInfo EXCEPT !.calls = c] : c \in SeqsUpTo(Samples, MaxLen)}
LoadedReports ==
    {Put(EmptyMap, NameA, [gas |-> 5, size |-> 2,
        functions |-> Put(EmptyMap, FnTransfer, Put(EmptyMap, SigTransfer, g))]) :
            g \in LoadedGasInfos}
    \cup
    {Put(EmptyMap, NameA, [gas |-> 5, size |-> 2,
        functions |-> Put(EmptyMap, FnTransfer,
            Put(Put(EmptyMap, SigTransfer, g), SigTransferFrom, h))]) :
            g \in LoadedGasInfos, h \in LoadedGasInfos}

(***************************************************************************)
(* The operations.                                                          *)
(***************************************************************************)
Self == [report_for |-> report_for, contracts |-> contracts]

\* GasReport::new(filter), filter drawn from Filters
InitWith(Filters) ==
    /\ report_for \in Filters
    /\ contracts = new(report_for).contracts
    /\ rendered = <<>>
    /\ lastOp = "new"
    /\ finalized = FALSE
    /\ preFinalize = EmptyMap
    /\ history = <<>>

\* a GasReport built from its public fields
InitLoaded ==
    /\ report_for = <<>>
    /\ contracts \in LoadedReports
    /\ rendered = <<>>
    /\ lastOp = "new"
    /\ finalized = FALSE
    /\ preFinalize = EmptyMap
    /\ history = <<>>

\* report.analyze(&traces): trees of the given shapes over Traces, at most
\* `max` nodes over all calls
AnalyzeFrom(Traces, shapes, max) ==
    \E n \in 0..max :
        /\ TotalNodes(history) + n <= max
        /\ \E shapeList \in shapes[n], traceOf \in [1..n -> Traces] :
            LET traces == MkTraces(shapeList, traceOf, 0)
            IN  /\ contracts' = analyze(Self, traces).contracts
                /\ report_for' = analyze(Self, traces).report_for
                /\ history' = history \o traces
        /\ rendered' = <<>>
        /\ lastOp' = "analyze"
        /\ UNCHANGED <<finalized, preFinalize>>

\* report = report.finalize()
Finalize ==
    /\ contracts' = finalize(Self).contracts
    /\ report_for' = finalize(Self).report_for
    /\ rendered' = <<>>
    /\ lastOp' = "finalize"
    /\ finalized' = TRUE
    /\ preFinalize' = contracts
    /\ UNCHANGED history

\* format!("{}", report)
Fmt ==
    /\ rendered' = fmt(Self)
    /\ lastOp' = "fmt"
    /\ UNCHANGED <<report_for, contracts, finalized, preFinalize, history>>

(***************************************************************************)
(* Specifications, one per input family.                                    *)
(***************************************************************************)
Init == InitWith(FiltersSentinel)
Analyze == AnalyzeFrom(TracesSentinel, ShapesMax, MaxNodes)
Next == Analyze \/ Finalize \/ Fmt
Spec == Init /\ [][Next]_vars

InitTests == InitWith(FiltersTests)
AnalyzeTests == AnalyzeFrom(TracesTests, ShapesMax, MaxNodes)
NextTests == AnalyzeTests \/ Finalize \/ Fmt
SpecTests == InitTests /\ [][NextTests]_vars

InitKeys == InitWith(FiltersKeys)
AnalyzeKeys == AnalyzeFrom(TracesKeys, ShapesMax, MaxNodes)
NextKeys == AnalyzeKeys \/ Finalize \/ Fmt
SpecKeys == InitKeys /\ [][NextKeys]_vars

InitRender == InitWith(FiltersRender)
AnalyzeRender == AnalyzeFrom(TracesRender, ShapesMax, MaxNodes)
NextRender == AnalyzeRender \/ Finalize \/ Fmt
SpecRender == InitRender /\ [][NextRender]_vars

InitOrder == InitWith(FiltersOrder)
AnalyzeOrder == AnalyzeFrom(TracesOrder, ShapesOrder, MaxOrderNodes)
NextOrder == AnalyzeOrder \/ Finalize \/ Fmt
SpecOrder == InitOrder /\ [][NextOrder]_vars

InitCreate == InitWith(FiltersCreate)
AnalyzeCreate == AnalyzeFrom(TracesCreate, ShapesOrder, MaxOrderNodes)
NextCreate == AnalyzeCreate \/ Finalize \/ Fmt
SpecCreate == InitCreate /\ [][NextCreate]_vars

InitFilter == InitWith(FiltersFilter)
AnalyzeFilter == AnalyzeFrom(TracesFilter, ShapesFilter, MaxFilterNodes)
NextFilter == AnalyzeFilter \/ Finalize \/ Fmt
SpecFilter == InitFilter /\ [][NextFilter]_vars

NextStats == Finalize \/ Fmt
SpecStats == InitLoaded /\ [][NextStats]_vars

(***************************************************************************)
(* What the claims speak of.                                                *)
(***************************************************************************)
IsSentinel(trace) ==
    trace.address \in {CHEATCODE_ADDRESS, HARDHAT_CONSOLE_ADDRESS}

RECURSIVE PreOrder(_, _)
RECURSIVE PreOrderAll(_, _)
\* the nodes of the subtree at i: the node, then its children's subtrees in
\* the order the children are listed
PreOrder(arena, i) == <<arena[i].trace>> \o PreOrderAll(arena, arena[i].children)
PreOrderAll(arena, children) ==
    IF children = <<>> THEN <<>>
    ELSE PreOrder(arena, Head(children)) \o PreOrderAll(arena, Tail(children))

RECURSIVE Reached(_, _)
RECURSIVE ReachedAll(_, _)
\* the same, without the descendants of sentinel-address nodes
Reached(arena, i) ==
    IF IsSentinel(arena[i].trace) THEN <<arena[i].trace>>
    ELSE <<arena[i].trace>> \o ReachedAll(arena, arena[i].children)
ReachedAll(arena, children) ==
    IF children = <<>> THEN <<>>
    ELSE Reached(arena, Head(children)) \o ReachedAll(arena, Tail(children))

RECURSIVE AllTraces(_)
\* every node of every tree analysed, in tree order and pre-order
AllTraces(trees) ==
    IF trees = <<>> THEN <<>> ELSE PreOrder(Head(trees), 0) \o AllTraces(Tail(trees))

RECURSIVE ReachedTraces(_)
\* the nodes with no sentinel-address ancestor, in the same order
ReachedTraces(trees) ==
    IF trees = <<>> THEN <<>>
    ELSE Reached(Head(trees), 0) \o ReachedTraces(Tail(trees))

\* s is the part of n after its last ':', n itself when n has no ':'
IsTrailingPart(n, s) ==
    \E k \in 0..Len(n) :
        /\ s = SubSeq(n, k + 1, Len(n))
        /\ \A i \in (k + 1)..Len(n) : n[i] # ":"
        /\ k = 0 \/ n[k] = ":"

InScope(F, n) ==
    \/ F = <<>>
    \/ \E i \in 1..Len(F) : F[i] = <<"*">>
    \/ \E i \in 1..Len(F) : IsTrailingPart(n, F[i])

\* a qualifying node: no sentinel address, a contract name, the name in scope
Qualifies(F, t) ==
    /\ ~IsSentinel(t)
    /\ t.contract # None
    /\ InScope(F, t.contract[1])

IsCreation(t) == t.data.tag = "Raw" /\ t.created
IsSample(t) == t.data.tag = "Decoded" /\ ~is_test(t.data.func) /\ ~is_setup(t.data.func)
KeyOf(t) == <<t.contract[1], t.data.func, t.data.sig>>

\* the qualifying sample nodes of ts stored under key, in order
SamplesOf(F, ts, key) ==
    LET Test(t) == Qualifies(F, t) /\ IsSample(t) /\ KeyOf(t) = key
    IN  SelectSeq(ts, Test)

\* the qualifying creation nodes of ts for the contract name, in order
CreationsOf(F, ts, name) ==
    LET Test(t) == Qualifies(F, t) /\ IsCreation(t) /\ t.contract[1] = name
    IN  SelectSeq(ts, Test)

GasOf(ts) == [i \in 1..Len(ts) |-> ts[i].gas_cost]

Range(q) == {q[i] : i \in 1..Len(q)}
Count(q, x) == Cardinality({i \in 1..Len(q) : q[i] = x})
SameBag(p, q) == Len(p) = Len(q) /\ \A x \in Range(p) \cup Range(q) : Count(p, x) = Count(q, x)
Ascending(q) == \A i \in 1..(Len(q) - 1) : q[i] <= q[i + 1]
Least(q) == CHOOSE x \in Range(q) : \A y \in Range(q) : x <= y
Greatest(q) == CHOOSE x \in Range(q) : \A y \in Range(q) : y <= x

\* the (contract, function, signature) keys of a contracts map
KeysIn(cs) ==
    UNION {UNION {{<<n, f, g>> : g \in DOMAIN cs[n].functions[f]} :
                     f \in DOMAIN cs[n].functions} : n \in DOMAIN cs}

\* the keys of the decoded, named nodes of ts
KeysOf(ts) ==
    {KeyOf(ts[i]) : i \in {j \in 1..Len(ts) :
                              ts[j].contract # None /\ ts[j].data.tag = "Decoded"}}

GasInfoAt(cs, key) == cs[key[1]].functions[key[2]][key[3]]
CallsAt(cs, key) == IF key \in KeysIn(cs) THEN GasInfoAt(cs, key).calls ELSE <<>>

\* node t was aggregated: its contract has an entry, and its creation values
\* or its call sample are recorded there
Aggregated(F, cs, ts, t) ==
    /\ t.contract[1] \in DOMAIN cs
    /\ IsSample(t) => t.gas_cost \in Range(CallsAt(cs, KeyOf(t)))
    /\ IsCreation(t) =>
          \E c \in Range(CreationsOf(F, ts, t.contract[1])) :
              /\ cs[t.contract[1]].gas = c.gas_cost
              /\ cs[t.contract[1]].size = Len(c.data.bytes)

RECURSIVE LexLess(_, _)
\* a comes before b in lexicographic order
LexLess(a, b) ==
    IF b = <<>> THEN FALSE
    ELSE IF a = <<>> THEN TRUE
    ELSE IF Head(a) = Head(b) THEN LexLess(Tail(a), Tail(b))
    ELSE CharCode(Head(a)) < CharCode(Head(b))

(***************************************************************************)
(* C1.                                                                      *)
(***************************************************************************)
\* C1 as stated: every node with a non-sentinel address, a contract name and
\* a name in scope is aggregated, wherever it is in its tree, also below a
\* node with a sentinel address.
C1_RecursesBelowSentinel ==
    LET ts == AllTraces(history)
    IN  \A i \in 1..Len(ts) :
            Qualifies(report_for, ts[i]) => Aggregated(report_for, contracts, ts, ts[i])

\* C1, amended: analyze_node returns at a sentinel-address node before it
\* recurses, so no descendant of such a node is visited.  Every qualifying
\* node with no sentinel-address ancestor is aggregated, whether its
\* ancestors were skipped by the filter, had no name or were aggregated, and
\* the samples stored under each key are as many as those nodes: a node
\* below a sentinel-address node adds none.
C1_RecursesExceptBelowSentinel ==
    LET ts == ReachedTraces(history)
    IN  /\ \A i \in 1..Len(ts) :
              Qualifies(report_for, ts[i]) =>
                  Aggregated(report_for, contracts, ts, ts[i])
        /\ \A key \in KeysIn(contracts) \cup KeysOf(AllTraces(history)) :
              Len(CallsAt(contracts, key)) = Len(SamplesOf(report_for, ts, key))
        /\ \A name \in DOMAIN contracts :
              \E i \in 1..Len(ts) :
                  Qualifies(report_for, ts[i]) /\ ts[i].contract[1] = name

\* a sentinel-address node has a qualifying child that left no trace in the
\* report, next to a qualifying node that was aggregated
C1_Witness ==
    /\ lastOp = "analyze"
    /\ contracts # EmptyMap
    /\ \E k \in 1..Len(history) : \E i \in DOMAIN history[k] :
          /\ IsSentinel(history[k][i].trace)
          /\ \E c \in Range(history[k][i].children) :
                /\ Qualifies(report_for, history[k][c].trace)
                /\ history[k][c].trace.contract[1] \notin DOMAIN contracts

(***************************************************************************)
(* C2.                                                                      *)
(***************************************************************************)
\* C2: a node with a sentinel address contributes nothing: every contract
\* entry, every deployment gas and size and every sample of the report comes
\* from a node whose address is not a sentinel.
C2_SentinelContributesNothing ==
    LET ts == AllTraces(history)
        plain == SelectSeq(ts, LAMBDA t : ~IsSentinel(t))
    IN  /\ \A name \in DOMAIN contracts :
              /\ \E t \in Range(plain) : t.contract = Some(name)
              /\ \/ contracts[name].gas = 0 /\ contracts[name].size = 0
                 \/ \E t \in Range(plain) :
                       /\ t.contract = Some(name) /\ IsCreation(t)
                       /\ contracts[name].gas = t.gas_cost
                       /\ contracts[name].size = Len(t.data.bytes)
        /\ \A key \in KeysIn(contracts) :
              \A x \in Range(CallsAt(contracts, key)) :
                  Count(CallsAt(contracts, key), x)
                      <= Count(GasOf(SamplesOf(report_for, plain, key)), x)

\* a sentinel-address node with a name in scope was visited (its parent has
\* an ordinary address and is the root) and the report holds something
C2_Witness ==
    /\ lastOp = "analyze"
    /\ contracts # EmptyMap
    /\ \E k \in 1..Len(history) :
          /\ ~IsSentinel(history[k][0].trace)
          /\ \E c \in Range(history[k][0].children) :
                /\ IsSentinel(history[k][c].trace)
                /\ InScope(report_for, history[k][c].trace.contract[1])

(***************************************************************************)
(* C3.                                                                      *)
(***************************************************************************)
\* C3: a visited node with an ordinary address and contract name n gets its
\* contract entry exactly when the filter list is empty, or holds "*", or
\* holds the part of n after its last ':'.  The decision is the same whatever
\* the report holds already: it is taken for every node of every tree, after
\* any earlier nodes, analyze calls, finalize and fmt.
C3_FilterDecision ==
    LET ts == ReachedTraces(history)
    IN  /\ \A i \in 1..Len(ts) :
              (~IsSentinel(ts[i]) /\ ts[i].contract # None) =>
                  (ts[i].contract[1] \in DOMAIN contracts
                      <=> InScope(report_for, ts[i].contract[1]))
        /\ \A name \in DOMAIN contracts : InScope(report_for, name)

\* under the filter ["B", "src"] a first analyze call left the entry of
\* "A:src" in the report, and a second call then met "src:A", out of scope,
\* and made no entry for it
C3_Witness ==
    /\ lastOp = "analyze"
    /\ report_for = <<NameB, NameSrc>>
    /\ Len(history) = 2
    /\ history[1][0].trace.contract = Some(NameASrc)
    /\ history[2][0].trace.contract = Some(NameSrcA)
    /\ DOMAIN contracts = {NameASrc}
    /\ Len(CallsAt(contracts, <<NameASrc, FnTransfer, SigTransfer>>)) = 1

(***************************************************************************)
(* C4.                                                                      *)
(***************************************************************************)
\* C4: a contract with in-scope creation nodes has the gas cost and the
\* payload length of the last of them in traversal order, over all analyze
\* calls: overwritten, not accumulated.
C4_LastCreationWins ==
    LET ts == AllTraces(history)
    IN  \A i \in 1..Len(ts) :
            (Qualifies(report_for, ts[i]) /\ IsCreation(ts[i])) =>
                LET name == ts[i].contract[1]
                    cr == CreationsOf(report_for, ts, name)
                IN  /\ name \in DOMAIN contracts
                    /\ contracts[name].gas = cr[Len(cr)].gas_cost
                    /\ contracts[name].size = Len(cr[Len(cr)].data.bytes)

\* two creations of differing gas for one contract, in one tree and over two
\* trees, the last the cheaper one
C4_Witness ==
    LET cr == CreationsOf(report_for, AllTraces(history), NameA)
    IN  /\ lastOp = "analyze"
        /\ Len(history) >= 2
        /\ ArenaSize(history[1]) >= 2
        /\ Len(cr) >= 3
        /\ cr[1].gas_cost # cr[2].gas_cost
        /\ cr[Len(cr) - 1].gas_cost > cr[Len(cr)].gas_cost

(***************************************************************************)
(* C5.                                                                      *)
(***************************************************************************)
\* C5: no function entry exists for a test or setup function, and the
\* samples under each key are as many as the qualifying decoded nodes of
\* that key that are neither test nor setup.
C5_TestAndSetupIgnored ==
    LET ts == ReachedTraces(history)
    IN  /\ \A key \in KeysIn(contracts) : ~is_test(key[2]) /\ ~is_setup(key[2])
        /\ \A key \in KeysIn(contracts) \cup KeysOf(ts) :
              Len(CallsAt(contracts, key)) =
                  Cardinality({i \in 1..Len(ts) :
                      /\ Qualifies(report_for, ts[i])
                      /\ ts[i].data.tag = "Decoded"
                      /\ KeyOf(ts[i]) = key
                      /\ ~is_test(ts[i].data.func)
                      /\ ~is_setup(ts[i].data.func)})

\* a test call, a setup call and an ordinary call, all in scope, were analysed
C5_Witness ==
    LET ts == ReachedTraces(history)
    IN  /\ lastOp = "analyze"
        /\ \E i \in 1..Len(ts) : Qualifies(report_for, ts[i]) /\ is_test(ts[i].data.func)
        /\ \E i \in 1..Len(ts) : Qualifies(report_for, ts[i]) /\ is_setup(ts[i].data.func)
        /\ KeysIn(contracts) # {}

(***************************************************************************)
(* C6.                                                                      *)
(***************************************************************************)
\* C6: the keys of contracts are the contract names of the qualifying nodes
\* observed by the traversal, whatever their payload; under the filter ["B"]
\* contract "A" has no entry.
C6_ContractKeys ==
    LET ts == ReachedTraces(history)
    IN  /\ DOMAIN contracts =
              {ts[i].contract[1] : i \in {j \in 1..Len(ts) : Qualifies(report_for, ts[j])}}
        /\ report_for = <<NameB>> => NameA \notin DOMAIN contracts

\* contract "A" got its entry from a raw call that is no creation, and
\* "src:B" from a test call: both entries are still the default
C6_Witness ==
    /\ lastOp = "analyze"
    /\ DOMAIN contracts = {NameA, NameSrcB}
    /\ contracts[NameA] = DefaultContractInfo
    /\ contracts[NameSrcB] = DefaultContractInfo

(***************************************************************************)
(* C7.                                                                      *)
(***************************************************************************)
\* C7: finalize keeps every GasInfo and gives it the same samples in
\* ascending order; with samples, min and max are the least and greatest of
\* them and bound median and mean; without, the four statistics are zero.
C7_FinalizeStatistics ==
    lastOp = "finalize" =>
        /\ KeysIn(contracts) = KeysIn(preFinalize)
        /\ \A key \in KeysIn(contracts) :
              LET was == GasInfoAt(preFinalize, key).calls
                  now == GasInfoAt(contracts, key)
              IN  /\ Ascending(now.calls)
                  /\ SameBag(was, now.calls)
                  /\ was # <<>> =>
                        /\ now.min = Least(was) /\ now.max = Greatest(was)
                        /\ now.min <= now.median /\ now.median <= now.max
                        /\ now.min <= now.mean /\ now.mean <= now.max
                  /\ was = <<>> =>
                        /\ now.min = 0 /\ now.mean = 0
                        /\ now.median = 0 /\ now.max = 0

\* finalize met one GasInfo with samples out of order and one with none
C7_Witness ==
    /\ lastOp = "finalize"
    /\ \E key \in KeysIn(preFinalize) :
          /\ ~Ascending(GasInfoAt(preFinalize, key).calls)
          /\ Len(GasInfoAt(preFinalize, key).calls) = 3
    /\ \E key \in KeysIn(preFinalize) : GasInfoAt(preFinalize, key).calls = <<>>

WithFunctions == {n \in DOMAIN contracts : DOMAIN contracts[n].functions # {}}

\* the sections written are those of the contracts with functions, one each,
\* in lexicographic order of the contract names
C9_Sections ==
    lastOp = "fmt" =>
        /\ Len(rendered) = Cardinality(WithFunctions)
        /\ {rendered[i].header : i \in 1..Len(rendered)} =
               {n \o <<" ", "c", "o", "n", "t", "r", "a", "c", "t">> : n \in WithFunctions}
        /\ \A i \in 1..(Len(rendered) - 1) :
               LexLess(rendered[i].header, rendered[i + 1].header)

\* rendering leaves the report as it was, and rendering again writes the same
C9_ReadOnly ==
    lastOp' = "fmt" =>
        /\ contracts' = contracts
        /\ report_for' = report_for
        /\ lastOp = "fmt" => rendered' = rendered

\* C9: rendering writes one section per contract with a non-empty functions
\* map, in lexicographic order of the names whatever the order the contracts
\* were met in, none for a contract without functions even with deployment
\* values, and changes nothing in the report.
C9_Rendering == [](C9_Sections) /\ [][C9_ReadOnly]_vars

\* "B" was met before "A", both have calls, "AB" has a deployment only: two
\* sections were written, "A" first
C9_Witness ==
    /\ lastOp = "fmt"
    /\ Len(rendered) = 2
    /\ NameAB \in DOMAIN contracts
    /\ contracts[NameAB].gas > 0
    /\ history # <<>>
    /\ history[1][0].trace.contract = Some(NameB)

(***************************************************************************)
(* C10.                                                                     *)
(***************************************************************************)
NoSentinel(trees) == \A t \in Range(AllTraces(trees)) : ~IsSentinel(t)

\* C10: before finalize and without sentinel-address nodes, the calls under
\* each key are the gas costs of the qualifying sample nodes of that key in
\* visit order, one per node, over all trees and analyze calls; no GasInfo
\* is without a sample.
C10_CallsInVisitOrder ==
    (~finalized /\ NoSentinel(history)) =>
        LET ts == AllTraces(history)
        IN  /\ \A key \in KeysIn(contracts) \cup KeysOf(ts) :
                  CallsAt(contracts, key) = GasOf(SamplesOf(report_for, ts, key))
            /\ \A key \in KeysIn(contracts) : Len(CallsAt(contracts, key)) >= 1

\* two trees, the first with a node whose second-listed child has the
\* smaller index, gave one key three samples, out of order and with a repeat
C10_Witness ==
    /\ ~finalized
    /\ lastOp = "analyze"
    /\ Len(history) = 2
    /\ \E i \in DOMAIN history[1] :
          /\ Len(history[1][i].children) = 2
          /\ history[1][i].children[1] > history[1][i].children[2]
    /\ \E key \in KeysIn(contracts) :
          LET calls == CallsAt(contracts, key)
          IN  /\ Len(calls) >= 3
              /\ ~Ascending(calls)
              /\ \E i, j \in 1..Len(calls) : i # j /\ calls[i] = calls[j]

====
